---- MODULE Spec2Model ----
(***************************************************************************)
(* The plan-execute graph of app/src/agent (graph.py) and its retrieval    *)
(* sub-workflows (utils/workflow.py), as one state machine.                *)
(*                                                                         *)
(* The parent graph is StateGraph(PlanExecute, input=Input): its state is  *)
(* the PlanExecute record, every field a last-value channel.  A node       *)
(* receives a PlanExecute instance (a pydantic model, read by attribute),  *)
(* returns a dict, and only the returned keys that are PlanExecute fields  *)
(* are written.  The two retrieval nodes are compiled sub-graphs over      *)
(* QualitativeRetrievalGraphState (question, context, relevant_context):   *)
(* on entry they read the keys they share with the parent, on exit the     *)
(* parent writes back the keys it shares with them.  A conditional edge is *)
(* evaluated in the step of the node it leaves, on the state that node has *)
(* just written.  An exception raised in a node or an edge function ends   *)
(* the run: no node has a retry policy and no handler catches it.          *)
(*                                                                         *)
(* Every model call (chain.invoke) and every vector-store search is an     *)
(* input of the machine: its result is drawn from a small set, or it       *)
(* raises.  Text is a sequence of characters, so that the escaping of      *)
(* quote characters is computed as the code computes it.                   *)
(*                                                                         *)
(* Not modelled: the step budget (recursion limit) of the configuration    *)
(* the graph is invoked with, which is the caller's and not in the         *)
(* repository.                                                             *)
(*                                                                         *)
(* The ingestion pipeline and the quote escaping have specifications of    *)
(* their own (SpecIngest, SpecEscape) over their own variables.            *)
(***************************************************************************)
EXTENDS Naturals, Sequences, FiniteSets, TLC

\* ---------------------------------------------------------------- bounds

\* Longest plan (in steps) a planning call returns.
MaxPlan == 2
\* The counters of sub-workflow node executions stop counting here.
MaxRuns == 2

\* ------------------------------------------------------------ input sets

DQ == "\""
SQ == "'"
BS == "\\"

\* What a search (its passages joined) or the filter's model call returns:
\* empty, plain, and with a quote character of either kind.
Texts == {<<>>, <<"a">>, <<SQ>>, <<DQ, "a">>}

Questions == {"q1", "q2"}

Steps == {"s1", "s2"}

Plans == UNION {[1..k -> Steps] : k \in 0..MaxPlan}

\* What the task handler's model call may put in TaskHandlerOutput.tool, a
\* plain str: the three tool names, or anything else ("other").
ToolNames == {"retrieve_chunks", "retrieve_quotes", "answer_from_context", "other"}

\* FinalAnswer.final_answer.
ShortTexts == {<<>>, <<"a">>}

\* TaskHandlerOutput.query and .curr_context.
RouterPayloads ==
    {[query |-> <<"a">>, curr_context |-> <<>>],
     [query |-> <<>>, curr_context |-> <<"a">>]}

\* ------------------------------------------------------------------ state

VARIABLES
    pc,                 \* the node about to run, "END", or "aborted"
    error,              \* the exception that ended the run, "none" if none
    question,           \* PlanExecute.question
    query_to_retrieve_or_answer,
    plan,               \* PlanExecute.plan
    context,            \* PlanExecute.context
    past_steps,         \* PlanExecute.past_steps
    curr_context,       \* PlanExecute.curr_context
    aggregated_context, \* PlanExecute.aggregated_context
    tool,               \* PlanExecute.tool
    response,           \* PlanExecute.response
    th_input,           \* task_handler_node: the inputs of its model call
    sub,                \* QualitativeRetrievalGraphState of the running sub-workflow
    grounded,           \* is_distilled_content_grounded_on_content: its last verdict
    retrieve_runs,      \* executions of the retrieve node in this sub-workflow run
    filter_runs,        \* executions of keep_only_relevant_content in this run
    steps_at_dispatch,  \* Len(past_steps) when task_handler last ran
    can_be_answered,    \* can_question_be_answered: its last verdict
    branch_completed,   \* a retrieval or answer branch has handed over to replanner
    retrieval_query     \* the argument of the last search_chunks / search_quotes call

graphVars == <<pc, error, question, query_to_retrieve_or_answer, plan, context,
               past_steps, curr_context, aggregated_context, tool, response,
               th_input, sub, grounded, retrieve_runs, filter_runs,
               steps_at_dispatch, can_be_answered, branch_completed,
               retrieval_query>>

\* The ingestion pipeline (scripts/ingestion.py, and its earlier copy
\* utils/ingestion.py): one run of the command line.
VARIABLES
    variant,            \* "app": app/scripts/ingestion.py, "utils": utils/ingestion.py
    mode,               \* --data-type: "chunks", "quotes" or "all"
    batch_size,         \* --batch-size, the batch_size argument
    ing_pc,             \* where the generators are
    data_type,          \* ingest_documents' data_type ("none" outside it)
    documents,          \* processed_data.documents, each document its content hash
    store,              \* content hashes of the points in the data type's collection
    existing_hashes,    \* ingest_documents' existing_hashes (app)
    hash_reads,         \* calls of get_existing_hashes in this ingest_documents run
    new_documents,      \* the documents the batching loop iterates over
    idx,                \* how many of them the loop has taken
    current_batch,      \* current_batch
    processed_documents,
    total_progress,     \* ingest_all's total_progress
    last_update,        \* the last progress record the command line received
    n_updates,          \* how many records it received from this ingest_documents run
    submitted,          \* the batches passed to process_batch in this run, in order
    skipped_count,      \* documents found to be duplicates in this run
    batch_error_prints, \* "Error processing batch: ..." lines printed by process_batch
    cli_error_prints,   \* "Error: ..." lines printed by the command line
    run_no,             \* 1: the command's first run, 2: it is run again
    first_run_clean     \* (second run) the first run returned with no failed batch

ingestVars == <<variant, mode, batch_size, ing_pc, data_type, documents, store,
                existing_hashes, hash_reads, new_documents, idx, current_batch,
                processed_documents, total_progress, last_update, n_updates,
                submitted, skipped_count, batch_error_prints, cli_error_prints,
                run_no, first_run_clean>>

\* The quote escaping of retrieval_nodes.py, applied to one text.
VARIABLES
    esc_pc,             \* "idle", "input", "escaped" or "unescaped"
    esc_x,              \* the text
    esc_y,              \* the text escaped
    esc_z               \* the escaped text unescaped

escVars == <<esc_pc, esc_x, esc_y, esc_z>>

vars == <<graphVars, ingestVars, escVars>>

planState == <<question, query_to_retrieve_or_answer, plan, context, past_steps,
               curr_context, aggregated_context, tool, response>>

subState == <<sub, grounded, retrieve_runs, filter_runs>>

\* ------------------------------------------------------- pure functions

RECURSIVE Replace(_, _, _)
\* str.replace(c, r) for a one-character c.
Replace(s, c, r) ==
    IF s = <<>> THEN <<>>
    ELSE (IF Head(s) = c THEN r ELSE <<Head(s)>>) \o Replace(Tail(s), c, r)

\* x.replace('"', '\\"').replace("'", "\\'")
EscapeOneMark(s) == Replace(Replace(s, DQ, <<BS, DQ>>), SQ, <<BS, DQ>>)

Escape(s) == Replace(Replace(s, DQ, <<BS, DQ>>), SQ, <<BS, SQ>>)

Inc(n) == IF n < MaxRuns THEN n + 1 ELSE n

\* task_handler_node's model-call inputs when the node is not running.
NoInput == [curr_task |-> "", last_tool |-> ""]

\* The state of a sub-workflow that is not running.
NoSub == [question |-> "", context |-> <<>>, relevant_context |-> <<>>]

\* An uncaught exception: where the run goes.
AfterRaiseRetry(node) == node

AfterRaise(node) == "aborted"

\* curr_task = state.plan[0] if state.plan else ""
CurrTaskLast(p) == IF p # <<>> THEN p[Len(p)] ELSE ""

CurrTask(p) == IF p # <<>> THEN p[1] ELSE ""

\* "last_tool": state.tool
LastToolInputNone(state_tool) == ""

LastToolInput(state_tool) == state_tool

\* route_based_on_tool and the path map of task_handler's conditional edge;
\* "KeyError" when the function falls through (returns None).
route_based_on_tool(t) ==
    CASE t = "retrieve_chunks" -> "retrieve_chunks"
      [] t = "retrieve_quotes" -> "retrieve_quotes"
      [] t = "answer_from_context" -> "answer"
      [] OTHER -> "KeyError"

\* The sub-workflow's conditional edge out of keep_only_relevant_content.
GroundedEdgeSwapped(g) == IF g THEN "keep_only_relevant_content" ELSE "subgraph_END"

GroundedEdgeReretrieve(g) ==
    IF g THEN "subgraph_END" ELSE "retrieve_chunks_context_per_question"

GroundedEdge(g) == IF g THEN "subgraph_END" ELSE "keep_only_relevant_content"

\* can_question_be_answered and the path map of replanner's conditional edge.
CanBeAnsweredEdgeSwapped(b) == IF b THEN "break_down_plan" ELSE "get_final_answer"

CanBeAnsweredEdge(b) == IF b THEN "get_final_answer" ELSE "break_down_plan"

\* is_answer_grounded_on_context and the path map of answer's conditional edge.
AnswerEdge(g) == IF g THEN "replanner" ELSE "answer"

\* The edge out of planner.
PlannerEdgeToFinalAnswer == "get_final_answer"

PlannerEdge == "break_down_plan"

\* PlanExecute.plan after task_handler_node, whose returned dict has no
\* plan key.
PlanAfterDispatchPopped(p) == IF p = <<>> THEN p ELSE Tail(p)

PlanAfterDispatch(p) == p

\* The parent's context after a node inside a retrieval sub-graph has
\* written the sub-graph's context: the parent's channels are written when
\* the sub-graph, a node of the parent, returns.
ParentContextInsideSubgraphWriteThrough(parent_context, sub_context) == sub_context

ParentContextInsideSubgraph(parent_context, sub_context) == parent_context

\* question = state.question ...; docs = search_chunks(question)
SearchQuestionFirst(state) == "q1"

SearchQuestion(state) == state.question

\* The edge out of get_final_answer.
FinalAnswerEdgeLoop == "replanner"

FinalAnswerEdge == "END"

\* What the parent's aggregated_context is after a retrieval sub-graph
\* returns {question, context, relevant_context}: relevant_context is no
\* field of PlanExecute, so the key is dropped and the field keeps its value.
ReturnedAggregatedContextOverwrite(agg, out) == out.relevant_context

ReturnedAggregatedContext(agg, out) == agg

\* answer_question_from_context_node subscripts its state, state["question"]:
\* the state is a PlanExecute instance, which has no __getitem__.
AnswerNodeSubscriptRaises == TRUE

\* ------------------------------------------------------------------- Init

NoUpdate == [progress |-> 0, processed |-> 0, total |-> 0, error |-> "null",
             kind |-> "none"]

\* The ingestion pipeline is not running.
InitIngestIdle ==
    /\ variant = "app"
    /\ mode = "all"
    /\ batch_size = 0
    /\ ing_pc = "idle"
    /\ data_type = "none"
    /\ documents = <<>>
    /\ store = {}
    /\ existing_hashes = {}
    /\ hash_reads = 0
    /\ new_documents = <<>>
    /\ idx = 0
    /\ current_batch = <<>>
    /\ processed_documents = 0
    /\ total_progress = 0
    /\ last_update = NoUpdate
    /\ n_updates = 0
    /\ submitted = <<>>
    /\ skipped_count = 0
    /\ batch_error_prints = 0
    /\ cli_error_prints = 0
    /\ run_no = 1
    /\ first_run_clean = FALSE

\* No text is being escaped.
InitEscapeIdle ==
    /\ esc_pc = "idle"
    /\ esc_x = <<>>
    /\ esc_y = <<>>
    /\ esc_z = <<>>

\* The plan-execute graph is not running.
InitGraphIdle ==
    /\ pc = "idle"
    /\ error = "none"
    /\ question = ""
    /\ query_to_retrieve_or_answer = <<>>
    /\ plan = <<>>
    /\ context = <<>>
    /\ past_steps = <<>>
    /\ curr_context = <<>>
    /\ aggregated_context = <<>>
    /\ tool = ""
    /\ response = <<>>
    /\ th_input = NoInput
    /\ sub = NoSub
    /\ grounded = "unset"
    /\ retrieve_runs = 0
    /\ filter_runs = 0
    /\ steps_at_dispatch = 0
    /\ can_be_answered = "unset"
    /\ branch_completed = FALSE
    /\ retrieval_query = ""

Init ==
    /\ pc = "planner"
    /\ error = "none"
    /\ question \in Questions
    /\ query_to_retrieve_or_answer = <<>>
    /\ plan = <<>>
    /\ context = <<>>
    /\ past_steps = <<>>
    /\ curr_context = <<>>
    /\ aggregated_context = <<>>
    /\ tool = ""
    /\ response = <<>>
    /\ th_input = NoInput
    /\ sub = NoSub
    /\ grounded = "unset"
    /\ retrieve_runs = 0
    /\ filter_runs = 0
    /\ steps_at_dispatch = 0
    /\ can_be_answered = "unset"
    /\ branch_completed = FALSE
    /\ retrieval_query = ""
    /\ InitIngestIdle
    /\ InitEscapeIdle

\* ---------------------------------------------------------------- actions

\* A node or edge function raised e: nothing it computed is written.
Raise(e) ==
    /\ pc' = AfterRaise(pc)
    /\ error' = e
    /\ UNCHANGED <<planState, th_input, subState, steps_at_dispatch, can_be_answered,
                   branch_completed, retrieval_query>>

planner_node ==
    /\ pc = "planner"
    /\ UNCHANGED <<ingestVars, escVars>>
    /\ \/ \E steps \in Plans :
            /\ plan' = steps
            /\ question' = question
            /\ pc' = PlannerEdge
            /\ UNCHANGED <<error, query_to_retrieve_or_answer, context, past_steps,
                           curr_context, aggregated_context, tool, response,
                           th_input, subState, steps_at_dispatch, can_be_answered,
                   branch_completed, retrieval_query>>
       \/ Raise("oracle")

break_down_plan_node ==
    /\ pc = "break_down_plan"
    /\ UNCHANGED <<ingestVars, escVars>>
    /\ \/ \E steps \in Plans :
            /\ plan' = steps
            /\ pc' = "task_handler"
            /\ UNCHANGED <<error, question, query_to_retrieve_or_answer, context,
                           past_steps, curr_context, aggregated_context, tool,
                           response, th_input, subState, steps_at_dispatch, can_be_answered,
                   branch_completed, retrieval_query>>
       \/ Raise("oracle")

\* task_handler_node, then route_based_on_tool on the state it has written.
task_handler_node ==
    /\ pc = "task_handler"
    /\ UNCHANGED <<ingestVars, escVars>>
    /\ \/ \E r \in RouterPayloads, t \in ToolNames :
            /\ th_input' = [curr_task |-> CurrTask(plan),
                            last_tool |-> LastToolInput(tool)]
            /\ steps_at_dispatch' = Len(past_steps)
            /\ query_to_retrieve_or_answer' = r.query
            /\ curr_context' = r.curr_context
            /\ tool' = t
            /\ IF route_based_on_tool(t) = "KeyError"
               THEN /\ pc' = AfterRaise(pc)
                    /\ error' = "KeyError"
               ELSE /\ pc' = route_based_on_tool(t)
                    /\ error' = error
            /\ plan' = PlanAfterDispatch(plan)
            /\ UNCHANGED <<question, context, past_steps, aggregated_context,
                           response, subState, can_be_answered,
                   branch_completed, retrieval_query>>
       \/ Raise("oracle")

\* A retrieval sub-graph starts: its state takes the keys it shares with
\* the parent's (question, context).
subgraph_start ==
    /\ pc \in {"retrieve_chunks", "retrieve_quotes"}
    /\ UNCHANGED <<ingestVars, escVars>>
    /\ sub' = [question |-> question, context |-> context, relevant_context |-> <<>>]
    /\ grounded' = "unset"
    /\ retrieve_runs' = 0
    /\ filter_runs' = 0
    /\ pc' = IF pc = "retrieve_chunks"
             THEN "retrieve_chunks_context_per_question"
             ELSE "retrieve_book_quotes_context_per_question"
    /\ th_input' = NoInput
    /\ UNCHANGED <<error, planState, steps_at_dispatch, can_be_answered,
                   branch_completed, retrieval_query>>

\* retrieve_chunks_context_per_question / retrieve_book_quotes_context_per_question:
\* search with the state's question, join the passages, escape the quotes.
retrieve_context_per_question ==
    /\ pc \in {"retrieve_chunks_context_per_question",
               "retrieve_book_quotes_context_per_question"}
    /\ UNCHANGED <<ingestVars, escVars>>
    /\ \/ \E joined \in Texts :
            /\ retrieval_query' = SearchQuestion(sub)
            /\ sub' = [sub EXCEPT !.context = Escape(joined)]
            /\ context' = ParentContextInsideSubgraph(context, Escape(joined))
            /\ retrieve_runs' = Inc(retrieve_runs)
            /\ pc' = "keep_only_relevant_content"
            /\ UNCHANGED <<error, question, query_to_retrieve_or_answer, plan,
                           past_steps, curr_context, aggregated_context, tool,
                           response, th_input, grounded, filter_runs,
                           steps_at_dispatch, can_be_answered, branch_completed>>
       \/ Raise("search")

\* keep_only_relevant_content, then is_distilled_content_grounded_on_content
\* on the state it has written.
keep_only_relevant_content ==
    /\ pc = "keep_only_relevant_content"
    /\ UNCHANGED <<ingestVars, escVars>>
    /\ \/ \E relevant_content \in Texts, g \in BOOLEAN :
            /\ sub' = [sub EXCEPT !.relevant_context = Escape(relevant_content)]
            /\ filter_runs' = Inc(filter_runs)
            /\ grounded' = IF g THEN "true" ELSE "false"
            /\ pc' = GroundedEdge(g)
            /\ UNCHANGED <<error, planState, th_input, retrieve_runs,
                           steps_at_dispatch, can_be_answered,
                   branch_completed, retrieval_query>>
       \/ Raise("oracle")

\* The sub-graph has reached its END: the parent writes the returned keys
\* that are PlanExecute fields (question, context) and discards the rest.
subgraph_return ==
    /\ pc = "subgraph_END"
    /\ UNCHANGED <<ingestVars, escVars>>
    /\ question' = sub.question
    /\ context' = sub.context
    /\ aggregated_context' = ReturnedAggregatedContext(aggregated_context, sub)
    /\ pc' = "replanner"
    /\ sub' = NoSub
    /\ grounded' = "unset"
    /\ retrieve_runs' = 0
    /\ filter_runs' = 0
    /\ branch_completed' = TRUE
    /\ UNCHANGED <<error, query_to_retrieve_or_answer, plan, past_steps,
                   curr_context, tool, response, th_input, steps_at_dispatch,
                   can_be_answered, retrieval_query>>

\* replanner_node, then can_question_be_answered on the state it has written.
replanner_node ==
    /\ pc = "replanner"
    /\ UNCHANGED <<ingestVars, escVars>>
    /\ \/ \E steps \in Plans, b \in BOOLEAN :
            /\ plan' = steps
            /\ can_be_answered' = IF b THEN "useful" ELSE "not_useful"
            /\ pc' = CanBeAnsweredEdge(b)
            /\ UNCHANGED <<error, question, query_to_retrieve_or_answer, context,
                           past_steps, curr_context, aggregated_context, tool,
                           response, th_input, subState, steps_at_dispatch,
                           branch_completed, retrieval_query>>
       \/ Raise("oracle")

\* answer_question_from_context_node, then is_answer_grounded_on_context.
\* The node returns {answer, context, question}: answer is no field of
\* PlanExecute and is dropped.
answer_question_from_context_node ==
    /\ pc = "answer"
    /\ UNCHANGED <<ingestVars, escVars>>
    /\ IF AnswerNodeSubscriptRaises
       THEN /\ pc' = AfterRaise(pc)
            /\ error' = "TypeError"
            /\ th_input' = NoInput
            /\ UNCHANGED <<planState, subState, steps_at_dispatch, can_be_answered,
                   branch_completed, retrieval_query>>
       ELSE \/ \E answer \in ShortTexts, g \in BOOLEAN :
                 /\ context' = aggregated_context
                 /\ question' = question
                 /\ pc' = AnswerEdge(g)
                 /\ th_input' = NoInput
                 /\ branch_completed' = (branch_completed \/ g)
                 /\ UNCHANGED <<error, query_to_retrieve_or_answer, plan,
                                past_steps, curr_context, aggregated_context,
                                tool, response, subState, steps_at_dispatch,
                                can_be_answered, retrieval_query>>
            \/ Raise("oracle")

get_final_answer_node ==
    /\ pc = "get_final_answer"
    /\ UNCHANGED <<ingestVars, escVars>>
    /\ \/ \E final_answer \in ShortTexts :
            /\ response' = final_answer
            /\ pc' = FinalAnswerEdge
            /\ UNCHANGED <<error, question, query_to_retrieve_or_answer, plan,
                           context, past_steps, curr_context, aggregated_context,
                           tool, th_input, subState, steps_at_dispatch, can_be_answered,
                   branch_completed, retrieval_query>>
       \/ Raise("oracle")

Next ==
    \/ planner_node
    \/ break_down_plan_node
    \/ task_handler_node
    \/ subgraph_start
    \/ retrieve_context_per_question
    \/ keep_only_relevant_content
    \/ subgraph_return
    \/ replanner_node
    \/ answer_question_from_context_node
    \/ get_final_answer_node

Spec == Init /\ [][Next]_vars

\* The graph under a scheduler that always runs the next node, with oracles
\* that do not withhold their exit verdict for ever.
SpecFair ==
    /\ Spec
    /\ WF_vars(Next)
    /\ SF_vars(keep_only_relevant_content /\ grounded' = "true")
    /\ SF_vars(answer_question_from_context_node /\ pc' = "replanner")
    /\ SF_vars(replanner_node /\ can_be_answered' = "useful")

\* ------------------------------------------------------ the quote escaping

\* Longest text escaped.
MaxEscLen == 3

EscChars == {"a", SQ, DQ, BS}

EscTexts == UNION {[1..k -> EscChars] : k \in 0..MaxEscLen}

RECURSIVE Unescape(_)
\* The inverse asked for: drop the backslash in front of each quote character.
Unescape(s) ==
    IF s = <<>> THEN <<>>
    ELSE IF Len(s) >= 2 /\ s[1] = BS /\ s[2] \in {SQ, DQ}
         THEN <<s[2]>> \o Unescape(SubSeq(s, 3, Len(s)))
         ELSE <<s[1]>> \o Unescape(Tail(s))

InitEscape ==
    /\ InitGraphIdle
    /\ InitIngestIdle
    /\ esc_pc = "input"
    /\ esc_x \in EscTexts
    /\ esc_y = <<>>
    /\ esc_z = <<>>

escape_quotes ==
    /\ esc_pc = "input"
    /\ esc_y' = Escape(esc_x)
    /\ esc_pc' = "escaped"
    /\ UNCHANGED <<graphVars, ingestVars, esc_x, esc_z>>

unescape_quotes ==
    /\ esc_pc = "escaped"
    /\ esc_z' = Unescape(esc_y)
    /\ esc_pc' = "unescaped"
    /\ UNCHANGED <<graphVars, ingestVars, esc_x, esc_y>>

NextEscape ==
    \/ escape_quotes
    \/ unescape_quotes

SpecEscape == InitEscape /\ [][NextEscape]_vars

\* ----------------------------------------------------------------- claims

RetrievalTools == {"retrieve_chunks", "retrieve_quotes"}

IsSuffix(t, s) ==
    /\ Len(t) <= Len(s)
    /\ SubSeq(s, Len(s) - Len(t) + 1, Len(s)) = t

\* C1: when a retrieval branch returns with non-empty filtered text, that
\* text is appended to aggregated_context (which gets strictly longer and
\* ends with it) and copied into curr_context.
C1_ReturnAppendsFilteredText ==
    [][(pc = "subgraph_END" /\ pc' = "replanner" /\ sub.relevant_context # <<>>)
        => /\ Len(aggregated_context') > Len(aggregated_context)
           /\ IsSuffix(sub.relevant_context, aggregated_context')
           /\ curr_context' = sub.relevant_context]_vars

\* C2: when the replanner completes a cycle that went through a retrieval
\* branch with non-empty retrieved text, past_steps holds exactly one entry
\* more than when the cycle's DISPATCH ran, and the new plan does not
\* contain that entry.
C2_CycleLogsOneStep ==
    [][(/\ pc = "replanner"
        /\ pc' \in {"break_down_plan", "get_final_answer"}
        /\ tool \in RetrievalTools
        /\ context # <<>>)
        => /\ Len(past_steps') = steps_at_dispatch + 1
           /\ \A i \in 1..Len(plan') : plan'[i] # past_steps'[Len(past_steps')]]_vars

\* C3: no step of the graph or of a retrieval sub-workflow makes
\* aggregated_context shorter.
C3_AggregatedContextNeverShrinks ==
    [][Len(aggregated_context') >= Len(aggregated_context)]_vars

\* C3's case: a retrieval branch has returned non-empty text to the parent.
C3_Witness ==
    /\ pc = "replanner"
    /\ tool \in RetrievalTools
    /\ context # <<>>

\* C4: at END (after get_final_answer) response is a non-empty string.
C4_DoneHasResponse == pc = "END" => response # <<>>

C6_GroundedFirstExitsAfterOnePass ==
    [][/\ (pc = "keep_only_relevant_content" /\ filter_runs = 0 /\ grounded' = "true")
          => (pc' = "subgraph_END" /\ retrieve_runs' = 1 /\ filter_runs' = 1)
       /\ (pc = "subgraph_END") => (pc' = "replanner")]_vars

\* C6's case: a sub-workflow at its END after one retrieve and one filter.
C6_Witness ==
    /\ pc = "subgraph_END"
    /\ grounded = "true"
    /\ retrieve_runs = 1
    /\ filter_runs = 1

\* C7 as claimed: a DISPATCH entered with tool = retrieve_chunks never
\* selects retrieve_chunks.
C7_NeverChunksTwice ==
    [][(/\ pc = "task_handler"
        /\ tool = "retrieve_chunks"
        /\ pc' \in {"retrieve_chunks", "retrieve_quotes", "answer"})
        => tool' # "retrieve_chunks"]_vars

\* C7 as amended: the tool field entering DISPATCH is what the router's
\* model call receives as last_tool (the preference is the prompt's; the
\* node writes whatever tool the call returns).
C7_LastToolIsPassedToRouter ==
    [][(pc = "task_handler" /\ error' # "oracle")
        => th_input'.last_tool = tool]_vars

\* C7's case: the router was told last_tool = retrieve_chunks and selected
\* retrieve_chunks again.
C7_Witness ==
    /\ pc = "retrieve_chunks"
    /\ th_input.last_tool = "retrieve_chunks"
    /\ tool = "retrieve_chunks"

\* C8 as claimed: plan is non-empty at every entry to DISPATCH and at every
\* entry to BREAKDOWN after a replan.
C8_PlanNeverEmpty ==
    (pc = "task_handler" \/ (pc = "break_down_plan" /\ tool # ""))
        => plan # <<>>

\* C8 as amended: DISPATCH takes plan[0] as the current task when plan is
\* non-empty, and the empty string when it is empty.
C8_CurrentTaskOrEmpty ==
    [][(pc = "task_handler" /\ error' # "oracle")
        => /\ (plan # <<>>) => (th_input'.curr_task = Head(plan))
           /\ (plan = <<>>) => (th_input'.curr_task = "")]_vars

\* C8's case: after a replan, DISPATCH has run on an empty plan, with the
\* empty string as its current task.
C8_Witness ==
    /\ pc \in RetrievalTools
    /\ plan = <<>>
    /\ th_input.curr_task = ""
    /\ th_input.last_tool \in RetrievalTools

\* C9: response keeps its initial empty value until get_final_answer runs,
\* only the step get_final_answer -> END changes it, and at END nothing
\* runs and no field changes.
C9_ResponseSetOnceAtEnd ==
    /\ [](pc # "END" => response = <<>>)
    /\ [][response' # response => (pc = "get_final_answer" /\ pc' = "END")]_vars
    /\ [][pc = "END" => UNCHANGED vars]_vars

\* C9's case: the run is at END with response set.
C9_Witness == pc = "END" /\ response # <<>>

\* C10: a model call that raises takes the run to "aborted" in that same
\* step (no retry); an aborted run executes nothing more and its response
\* stays unset.
C10_OracleFailureAborts ==
    /\ [](error = "oracle" => (pc = "aborted" /\ response = <<>>))
    /\ [][pc = "aborted" => UNCHANGED vars]_vars

\* C10's case: the filter's model call failed on its second iteration.
C10_Witness ==
    /\ pc = "aborted"
    /\ error = "oracle"
    /\ filter_runs = 1
    /\ grounded = "false"

\* --------------------------------------------------- the ingestion pipeline

\* Most documents the preprocessor returns for one data type.
MaxDocs == 11

\* Config.BATCH_SIZE
BATCH_SIZE == 10

\* len(self.collections)
NumCollections == 2

Variants == {"app", "utils"}

Modes == {"chunks", "quotes", "all"}

\* Values of --batch-size.
BatchSizes == {3, BATCH_SIZE}

\* processed_data.documents: each document stands for its content hash.
Corpora == {[i \in 1..n |-> i] : n \in 0..MaxDocs} \cup {<<1, 1, 2>>}

\* The content hashes a collection holds when ingest_documents starts.
StoreChoices == {{}, {2}, {1, 2, 3}}

Range(q) == {q[i] : i \in 1..Len(q)}

\* content_hash in existing_hashes
IsDuplicateNever(h, existing) == FALSE

IsDuplicate(h, existing) == h \in existing

\* The size at which the loop hands current_batch to process_batch.
BatchLimit(v, bs) == IF v = "app" THEN BATCH_SIZE ELSE bs

\* int((processed_documents / total) * 100)
BatchProgress(p, t) == (p * 100) \div t

\* int(total_progress + update["progress"] / len(self.collections))
AdjustedProgressUndivided(tp, p) == tp + p

AdjustedProgress(tp, p) == tp + (p \div NumCollections)

\* Where ingest_documents is after a process_batch that failed: the
\* exception is caught inside process_batch, which returns 0.
AfterBatchErrorRaise(next) == "raised"

AfterBatchError(next) == next

\* current_batch after the batch has been processed: current_batch = []
BatchAfterProcessingKept(batch) == batch

BatchAfterProcessing(batch) == <<>>

\* total_progress += 100 / len(self.collections)
NextTotalProgressStuck(tp) == tp

NextTotalProgress(tp) == tp + (100 \div NumCollections)

\* The collection's content hashes after add_documents has inserted the
\* batch, each point with its content_hash in the payload.
StoreAfterInsertNoHash(st, batch) == st

StoreAfterInsert(st, batch) == st \cup Range(batch)

\* "Completed ingestion for ..." with the progress computed as for a batch.
FinalUpdateComputed(pd, total) ==
    [progress |-> BatchProgress(pd, total), processed |-> pd, total |-> total,
     error |-> "null", kind |-> "final"]

\* ProgressUpdate(progress=0, error=...)
ErrorUpdate(msg) ==
    [progress |-> 0, processed |-> 0, total |-> 0, error |-> msg, kind |-> "error"]

\* "All N documents already exist. Nothing to ingest."
AllExistUpdate(total) ==
    [progress |-> 100, processed |-> 0, total |-> total, error |-> "null",
     kind |-> "all_exist"]

\* "Processed batch: N documents"
BatchUpdateWithError(processed, pd, total) ==
    [progress |-> BatchProgress(pd, total), processed |-> pd, total |-> total,
     error |-> IF processed = 0 THEN "batch failed" ELSE "null", kind |-> "batch"]

BatchUpdate(processed, pd, total) ==
    [progress |-> BatchProgress(pd, total), processed |-> pd, total |-> total,
     error |-> "null", kind |-> "batch"]

\* "Skipped duplicate document" (utils)
SkipUpdate(pd, total) ==
    [progress |-> BatchProgress(pd, total), processed |-> pd, total |-> total,
     error |-> "null", kind |-> "skip"]

\* "Completed ingestion for ..."
FinalUpdate(pd, total) ==
    [progress |-> 100, processed |-> pd, total |-> total, error |-> "null",
     kind |-> "final"]

\* "All collections processed successfully!"
AllDoneUpdate ==
    [progress |-> 100, processed |-> 0, total |-> 0, error |-> "null",
     kind |-> "all_done"]

\* The total the records of this run carry.
RecordTotal(v, docs, news) == IF v = "app" THEN Len(news) ELSE Len(docs)

\* What ingest_all makes of a record of ingest_documents.
Received(u) ==
    IF mode = "all"
    THEN [u EXCEPT !.progress = AdjustedProgress(total_progress, u.progress)]
    ELSE u

\* The command line receives record u and prints its line.
Deliver(u) ==
    /\ last_update' = u
    /\ n_updates' = n_updates + 1
    /\ cli_error_prints' = cli_error_prints + (IF u.error # "null" THEN 1 ELSE 0)

\* ingest_documents yields record u.
Yield(u) == Deliver(Received(u))

NoYield == UNCHANGED <<last_update, n_updates, cli_error_prints>>

\* process_batch(batch, collection_name), succeeding or not.
ProcessBatch(batch, ok) ==
    /\ submitted' = Append(submitted, batch)
    /\ store' = IF ok THEN StoreAfterInsert(store, batch) ELSE store
    /\ processed_documents' = processed_documents + (IF ok THEN Len(batch) ELSE 0)
    /\ batch_error_prints' = batch_error_prints + (IF ok THEN 0 ELSE 1)

InitIngest ==
    /\ InitGraphIdle
    /\ InitEscapeIdle
    /\ variant \in Variants
    /\ mode \in Modes
    /\ batch_size \in BatchSizes
    /\ ing_pc = "ingest_documents"
    /\ data_type = (IF mode = "quotes" THEN "quotes" ELSE "chunks")
    /\ documents = <<>>
    /\ store = {}
    /\ existing_hashes = {}
    /\ hash_reads = 0
    /\ new_documents = <<>>
    /\ idx = 0
    /\ current_batch = <<>>
    /\ processed_documents = 0
    /\ total_progress = 0
    /\ last_update = NoUpdate
    /\ n_updates = 0
    /\ submitted = <<>>
    /\ skipped_count = 0
    /\ batch_error_prints = 0
    /\ cli_error_prints = 0
    /\ run_no = 1
    /\ first_run_clean = FALSE

\* ingest_documents up to its batching loop: the preprocessor's documents,
\* the early returns, and (app) the one read of the existing hashes and the
\* filtering of the duplicates.
ingest_documents_start ==
    /\ ing_pc = "ingest_documents"
    /\ UNCHANGED <<graphVars, escVars, variant, mode, batch_size, run_no,
                   first_run_clean, data_type,
                   total_progress, idx, current_batch, processed_documents,
                   submitted, batch_error_prints>>
    /\ \/ \* PreProcessor raises: nothing in the generators catches it
          /\ ing_pc' = "raised"
          /\ NoYield
          /\ UNCHANGED <<documents, store, existing_hashes, hash_reads,
                         new_documents, skipped_count>>
       \/ \E docs \in (IF run_no = 2 THEN {documents} ELSE Corpora),
             st \in (IF run_no = 2 THEN {store} ELSE StoreChoices),
             readable \in BOOLEAN :
            LET existing == IF readable THEN st ELSE {}
                news == SelectSeq(docs, LAMBDA h : ~IsDuplicate(h, existing))
            IN  /\ documents' = docs
                /\ store' = st
                /\ IF Len(docs) = 0
                   THEN /\ Yield(ErrorUpdate("No documents to process"))
                        /\ ing_pc' = "returned"
                        /\ UNCHANGED <<existing_hashes, hash_reads,
                                       new_documents, skipped_count>>
                   ELSE IF variant = "app"
                   THEN /\ existing_hashes' = existing
                        /\ hash_reads' = hash_reads + 1
                        /\ new_documents' = news
                        /\ skipped_count' = Len(docs) - Len(news)
                        /\ IF Len(news) = 0
                           THEN /\ Yield(AllExistUpdate(Len(docs)))
                                /\ ing_pc' = "returned"
                           ELSE /\ NoYield
                                /\ ing_pc' = "loop"
                   ELSE /\ new_documents' = docs
                        /\ NoYield
                        /\ ing_pc' = "loop"
                        /\ UNCHANGED <<existing_hashes, hash_reads, skipped_count>>

\* One iteration of the batching loop.
batch_loop_step ==
    /\ ing_pc = "loop"
    /\ idx < Len(new_documents)
    /\ idx' = idx + 1
    /\ UNCHANGED <<graphVars, escVars, variant, mode, batch_size, run_no,
                   first_run_clean, data_type,
                   total_progress, documents, existing_hashes, hash_reads,
                   new_documents>>
    /\ LET doc == new_documents[idx + 1]
           batch == Append(current_batch, doc)
           total == RecordTotal(variant, documents, new_documents)
       IN  \/ \* (utils) document_exists(...) is true
              /\ variant = "utils"
              /\ doc \in store
              /\ skipped_count' = skipped_count + 1
              /\ Yield(SkipUpdate(processed_documents, total))
              /\ UNCHANGED <<ing_pc, store, current_batch, processed_documents,
                             submitted, batch_error_prints>>
           \/ \* the document joins the batch; (utils) document_exists is
              \* false, or its lookup failed and it returned False
              /\ Len(batch) < BatchLimit(variant, batch_size)
              /\ current_batch' = batch
              /\ NoYield
              /\ UNCHANGED <<ing_pc, store, processed_documents, submitted,
                             skipped_count, batch_error_prints>>
           \/ /\ Len(batch) >= BatchLimit(variant, batch_size)
              /\ \E ok \in BOOLEAN :
                    LET processed == IF ok THEN Len(batch) ELSE 0
                    IN  /\ ProcessBatch(batch, ok)
                        /\ current_batch' = BatchAfterProcessing(batch)
                        /\ Yield(BatchUpdate(processed,
                                             processed_documents + processed, total))
                        /\ ing_pc' = IF ok THEN "loop" ELSE AfterBatchError("loop")
              /\ UNCHANGED skipped_count

\* After the loop: the remaining documents, then the final update.
finish_ingest_documents ==
    /\ ing_pc = "loop"
    /\ idx = Len(new_documents)
    /\ UNCHANGED <<graphVars, escVars, variant, mode, batch_size, run_no,
                   first_run_clean, data_type,
                   total_progress, documents, existing_hashes, hash_reads,
                   new_documents, idx, current_batch, skipped_count>>
    /\ LET total == RecordTotal(variant, documents, new_documents)
       IN  IF current_batch # <<>>
           THEN \E ok \in BOOLEAN :
                    LET processed == IF ok THEN Len(current_batch) ELSE 0
                    IN  /\ ProcessBatch(current_batch, ok)
                        /\ Yield(FinalUpdate(processed_documents + processed, total))
                        /\ ing_pc' = IF ok THEN "returned"
                                     ELSE AfterBatchError("returned")
           ELSE /\ Yield(FinalUpdate(processed_documents, total))
                /\ ing_pc' = "returned"
                /\ UNCHANGED <<store, processed_documents, submitted,
                               batch_error_prints>>

\* ingest_all after ingest_documents has returned: the next data type, or
\* the completion record.
ingest_all_next ==
    /\ ing_pc = "returned"
    /\ mode = "all"
    /\ total_progress' = NextTotalProgress(total_progress)
    /\ UNCHANGED <<graphVars, escVars, variant, mode, batch_size, run_no,
                   first_run_clean>>
    /\ IF data_type = "chunks"
       THEN /\ data_type' = "quotes"
            /\ ing_pc' = "ingest_documents"
            /\ documents' = <<>>
            /\ store' = {}
            /\ existing_hashes' = {}
            /\ hash_reads' = 0
            /\ new_documents' = <<>>
            /\ idx' = 0
            /\ current_batch' = <<>>
            /\ processed_documents' = 0
            /\ n_updates' = 0
            /\ submitted' = <<>>
            /\ skipped_count' = 0
            /\ batch_error_prints' = 0
            /\ cli_error_prints' = 0
            /\ UNCHANGED last_update
       ELSE /\ Deliver(AllDoneUpdate)
            /\ ing_pc' = "done"
            /\ UNCHANGED <<data_type, documents, store, existing_hashes,
                           hash_reads, new_documents, idx, current_batch,
                           processed_documents, submitted, skipped_count,
                           batch_error_prints>>

\* The command line's loop over ingest_documents' records ends.
main_end ==
    /\ ing_pc = "returned"
    /\ mode # "all"
    /\ ing_pc' = "done"
    /\ UNCHANGED <<graphVars, escVars, variant, mode, batch_size, run_no,
                   first_run_clean, data_type,
                   documents, store, existing_hashes, hash_reads, new_documents,
                   idx, current_batch, processed_documents, total_progress,
                   last_update, n_updates, submitted, skipped_count,
                   batch_error_prints, cli_error_prints>>

\* The same command is run again, on the same corpus and the collection as
\* the first run left it.
second_run ==
    /\ ing_pc = "done"
    /\ mode # "all"
    /\ run_no = 1
    /\ run_no' = 2
    /\ first_run_clean' = (batch_error_prints = 0)
    /\ ing_pc' = "ingest_documents"
    /\ existing_hashes' = {}
    /\ hash_reads' = 0
    /\ new_documents' = <<>>
    /\ idx' = 0
    /\ current_batch' = <<>>
    /\ processed_documents' = 0
    /\ last_update' = NoUpdate
    /\ n_updates' = 0
    /\ submitted' = <<>>
    /\ skipped_count' = 0
    /\ batch_error_prints' = 0
    /\ cli_error_prints' = 0
    /\ UNCHANGED <<graphVars, escVars, variant, mode, batch_size, data_type,
                   documents, store, total_progress>>

NextIngest ==
    \/ ingest_documents_start
    \/ batch_loop_step
    \/ finish_ingest_documents
    \/ ingest_all_next
    \/ main_end
    \/ second_run

SpecIngest == InitIngest /\ [][NextIngest]_vars

\* How many documents the batches of q hold.
RECURSIVE SubmittedCount(_)
SubmittedCount(q) == IF q = <<>> THEN 0 ELSE Len(Head(q)) + SubmittedCount(Tail(q))

\* C11: a failed batch does not end ingest_documents: after a failure the
\* generator is still in its loop or has returned normally, and when it has
\* returned, every document that was not skipped as a duplicate has been
\* handed to process_batch and the last record is the final update.
C11_BatchFailureDoesNotEndStream ==
    (batch_error_prints > 0)
        => /\ ing_pc \in {"loop", "returned", "done"}
           /\ (ing_pc = "returned")
                => /\ last_update.kind = "final"
                   /\ last_update.error = "null"
                   /\ SubmittedCount(submitted) + skipped_count = Len(documents)

\* C11's case: the first batch failed, the final partial batch was submitted
\* after it (and failed as well), and the final update was still yielded.
C11_Witness ==
    /\ ing_pc = "returned"
    /\ batch_error_prints = 2
    /\ Len(submitted) = 2
    /\ Len(submitted[2]) < Len(submitted[1])
    /\ last_update.kind = "final"

\* C12 as stated: every failed batch makes the command line print an
\* "Error: <message>" line, i.e. it receives a record with a non-null error.
C12_FailedBatchYieldsErrorRecord ==
    [][(batch_error_prints' > batch_error_prints)
        => (cli_error_prints' > cli_error_prints)]_vars

\* C12 amended: a failed batch is reported by process_batch's own line
\* "Error processing batch: <message>", once; the command line prints no
\* "Error: ..." line for it, the record yielded with it (if any) has a null
\* error, and ingest_documents goes on.
C12_FailedBatchLoggedByProcessBatch ==
    [][(batch_error_prints' > batch_error_prints)
        => /\ batch_error_prints' = batch_error_prints + 1
           /\ cli_error_prints' = cli_error_prints
           /\ (n_updates' > n_updates) => (last_update'.error = "null")
           /\ ing_pc' \in {"loop", "returned"}]_vars

\* C12's case: the record of a batch that failed, without an error.
C12_Witness ==
    /\ last_update.kind = "batch"
    /\ last_update.processed = 0
    /\ last_update.error = "null"
    /\ batch_error_prints = 1
    /\ cli_error_prints = 0
    /\ ing_pc = "loop"

\* C13: (app) the existing hashes are read at most once in a run of
\* ingest_documents, exactly once before the batching loop is entered, and no
\* document handed to process_batch has its hash in the set that was read.
C13_HashesReadOnceAndDuplicatesSuppressed ==
    (variant = "app")
        => /\ hash_reads <= 1
           /\ (ing_pc = "loop" \/ submitted # <<>>) => (hash_reads = 1)
           /\ \A i \in 1..Len(submitted) :
                \A j \in 1..Len(submitted[i]) :
                    submitted[i][j] \notin existing_hashes

\* C13's case: some documents were suppressed as duplicates, the others
\* submitted.
C13_Witness ==
    /\ variant = "app"
    /\ existing_hashes = {2}
    /\ skipped_count = 1
    /\ submitted # <<>>
    /\ hash_reads = 1

\* C14: every record the command line receives, from ingest_documents or
\* from ingest_all, has a progress in 0..100.
C14_ProgressInRange == last_update.progress \in 0..100

\* C14's case: a batch record of the second collection of ingest_all, after
\* a failed batch.
C14_Witness ==
    /\ mode = "all"
    /\ data_type = "quotes"
    /\ last_update.kind = "batch"
    /\ last_update.progress \in 51..99
    /\ batch_error_prints > 0

\* C15: every batch handed to process_batch has exactly batch_size
\* documents, except the last one of the run, which may have fewer.
C15_BatchesHaveRequestedSize ==
    \A i \in 1..Len(submitted) :
        /\ Len(submitted[i]) <= batch_size
        /\ (i < Len(submitted)) => (Len(submitted[i]) = batch_size)

\* C16: the escaping is reversible: dropping the backslash in front of each
\* quote character of escape(x) gives x back, for every text x, quotes
\* already preceded by backslashes included.
C16_EscapeRoundTrip == esc_pc = "unescaped" => esc_z = esc_x

\* C16's case: a text with a backslash in front of a quote went round.
C16_Witness ==
    /\ esc_pc = "unescaped"
    /\ esc_x = <<BS, DQ, SQ>>
    /\ esc_y = <<BS, BS, DQ, BS, SQ>>
    /\ esc_z = esc_x

\* C17: the answer node runs to completion: a run in which DISPATCH selected
\* answer_from_context is never ended by the node's own TypeError.
C17_AnswerNodeCompletes == error # "TypeError"

\* C18: a DISPATCH whose model call returns leaves in the tool field one of
\* the three tool names and enters the branch of that name; none of its
\* outputs leaves the controller without a successor.
C18_RouterOutputAlwaysRouted ==
    [][(pc = "task_handler" /\ error' # "oracle")
        => /\ tool' \in {"retrieve_chunks", "retrieve_quotes", "answer_from_context"}
           /\ pc' = (IF tool' = "answer_from_context" THEN "answer" ELSE tool')]_vars

\* C19: every run of keep_only_relevant_content happens after exactly one
\* run of the retrieve node in that sub-workflow, leaves context as the
\* retrieve node wrote it, and replaces relevant_context by the escaped
\* output of this run's model call (nothing of the previous value is kept).
C19_RefilterSameContext ==
    [][(pc = "keep_only_relevant_content" /\ error' = "none")
        => /\ retrieve_runs = 1 /\ retrieve_runs' = 1
           /\ sub'.context = sub.context
           /\ sub'.relevant_context \in {Escape(t) : t \in Texts}
           /\ pc' \in {"keep_only_relevant_content", "subgraph_END"}]_vars

\* C19's case: the filter has run again after a "not grounded" verdict.
C19_Witness ==
    /\ pc = "keep_only_relevant_content"
    /\ grounded = "false"
    /\ filter_runs = 2
    /\ retrieve_runs = 1
    /\ sub.context # <<>>

\* C20: the replanner's step goes to get_final_answer exactly when the
\* verdict is "useful" and to break_down_plan when it is "not_useful", never
\* to task_handler or END; break_down_plan's step goes to task_handler.
C20_ReplanRoutesOnVerdict ==
    [][/\ (pc = "replanner" /\ error' # "oracle")
          => /\ (can_be_answered' = "useful") <=> (pc' = "get_final_answer")
             /\ (can_be_answered' = "not_useful") <=> (pc' = "break_down_plan")
             /\ pc' \in {"get_final_answer", "break_down_plan"}
       /\ (pc = "break_down_plan" /\ error' # "oracle")
          => (pc' = "task_handler")]_vars

\* C20's case: after a "not_useful" verdict the controller is at DISPATCH
\* again, through BREAKDOWN.
C20_Witness ==
    /\ pc = "task_handler"
    /\ can_be_answered = "not_useful"

\* The nodes of a retrieval sub-graph, and the parent's node that runs it.
InsideSubgraph ==
    {"retrieve_chunks", "retrieve_quotes",
     "retrieve_chunks_context_per_question",
     "retrieve_book_quotes_context_per_question",
     "keep_only_relevant_content"}

\* C21: a step taken inside a retrieval sub-workflow (its start, its
\* retrieve node, its filter node) changes no field of the parent's state,
\* its context field included; they change when the sub-workflow returns.
C21_SubWorkflowLeavesPlanState ==
    [][(pc \in InsideSubgraph) => (planState' = planState)]_vars

\* C21's case: the sub-workflow has written its own context and the parent's
\* still has its old value.
C21_Witness ==
    /\ pc = "keep_only_relevant_content"
    /\ sub.context = <<"a">>
    /\ context = <<>>
    /\ filter_runs = 1

\* C22: each of the three loops can go round once more from wherever it
\* is, whatever the counters say: the filter can be judged "not grounded"
\* and run again, the answer can be judged "not grounded" and be produced
\* again, and a "not_useful" verdict leads through break_down_plan and
\* task_handler into a branch again.
C22_EveryLoopCanRepeat ==
    /\ (pc = "keep_only_relevant_content")
         => ENABLED (keep_only_relevant_content /\ pc' = "keep_only_relevant_content")
    /\ (pc = "replanner")
         => ENABLED (replanner_node /\ pc' = "break_down_plan")
    /\ (pc = "break_down_plan")
         => ENABLED (break_down_plan_node /\ pc' = "task_handler")
    /\ (pc = "task_handler")
         => ENABLED (task_handler_node /\ pc' = "retrieve_chunks")
    /\ (pc = "answer")
         => ENABLED (answer_question_from_context_node /\ pc' = "answer")

\* C23: under SpecFair, a run in which no model call and no search fails
\* eventually reaches END with a response.
C23_FairRunsReachDone ==
    \/ <>(error \in {"oracle", "search"})
    \/ <>(pc = "END" /\ response # <<>>)

\* C24: get_final_answer is entered only by the replanner's step, on a
\* "useful" verdict; so whenever the run is at get_final_answer or END, and
\* whenever response is set, a branch has handed over to replanner and
\* replanner has run.
C24_FinalAnswerOnlyAfterReplan ==
    /\ []((pc \in {"get_final_answer", "END"} \/ response # <<>>)
            => (branch_completed /\ can_be_answered = "useful"))
    /\ [][(pc' = "get_final_answer")
            => (pc = "replanner" /\ can_be_answered' = "useful")]_vars

\* C24's case: a run that has reached END with a response.
C24_Witness ==
    /\ pc = "END"
    /\ response # <<>>
    /\ branch_completed
    /\ can_be_answered = "useful"

C26_PlanWrittenByPlanningNodesOnly ==
    [][(plan' # plan) => (pc \in {"planner", "break_down_plan", "replanner"})]_vars

\* C26's case: dispatch and a whole retrieval branch have run and the plan
\* still has both its steps, the executed one included.
C26_Witness ==
    /\ pc = "replanner"
    /\ branch_completed
    /\ tool = "retrieve_quotes"
    /\ plan = <<"s1", "s2">>

\* The documents of the batches of q, in the order they were handed over.
RECURSIVE Flatten(_)
Flatten(q) == IF q = <<>> THEN <<>> ELSE Head(q) \o Flatten(Tail(q))

\* C27: (app) what has been handed to process_batch is always the
\* non-duplicate documents taken so far, each once and in their order, and
\* all of them when ingest_documents has returned; every record has
\* processed <= total; the final record has processed = total exactly when
\* no batch failed.
C27_EachNewDocumentSubmittedOnce ==
    (variant = "app")
        => /\ last_update.processed <= last_update.total
           /\ Len(Flatten(submitted)) <= Len(new_documents)
           /\ Flatten(submitted) = SubSeq(new_documents, 1, Len(Flatten(submitted)))
           /\ (ing_pc \in {"returned", "done"} /\ last_update.kind = "final")
                => /\ Flatten(submitted) = new_documents
                   /\ (last_update.processed = last_update.total)
                        <=> (batch_error_prints = 0)

\* C27's case: a run has returned after a full batch that succeeded and a
\* last, partial batch that failed.
C27_Witness ==
    /\ variant = "app"
    /\ ing_pc = "returned"
    /\ skipped_count = 0
    /\ Len(submitted) = 2
    /\ batch_error_prints = 1
    /\ last_update.kind = "final"
    /\ last_update.processed = BATCH_SIZE
    /\ last_update.total = BATCH_SIZE + 1

\* C28: when ingest_documents has returned from its batching loop, the last
\* record has progress 100 and a null error, whatever failed; and when
\* ingest_all has returned, the last record is its success record with
\* progress 100.
C28_StreamEndsAtHundred ==
    /\ (mode # "all" /\ ing_pc \in {"returned", "done"} /\ documents # <<>>
            /\ (variant = "app" => new_documents # <<>>))
         => /\ last_update.kind = "final"
            /\ last_update.progress = 100
            /\ last_update.error = "null"
    /\ (mode = "all" /\ ing_pc = "done")
         => /\ last_update.kind = "all_done"
            /\ last_update.progress = 100
            /\ last_update.error = "null"

\* C28's case: every batch failed and the stream still ended at 100.
C28_Witness ==
    /\ mode # "all"
    /\ ing_pc = "returned"
    /\ last_update.progress = 100
    /\ last_update.processed = 0
    /\ last_update.total = 4
    /\ batch_error_prints = 2
    /\ Len(submitted) = 2

\* C29: (ingest_all) the progress of the records never decreases; it is in
\* 0..50 during the chunks phase, in 50..100 for the records of the quotes
\* phase, and 100 at the end.
C29_IngestAllProgressMonotone ==
    /\ [][(mode = "all") => (last_update'.progress >= last_update.progress)]_vars
    /\ []((mode = "all" /\ data_type = "chunks")
            => (last_update.progress \in 0..50))
    /\ []((mode = "all" /\ data_type = "quotes" /\ n_updates > 0)
            => (last_update.progress \in 50..100))
    /\ []((mode = "all" /\ ing_pc = "done") => (last_update.progress = 100))

\* C29's case: the quotes phase has yielded the error record of an empty
\* corpus (progress 0 in ingest_documents) after a chunks phase that ended.
C29_Witness ==
    /\ mode = "all"
    /\ data_type = "quotes"
    /\ ing_pc = "returned"
    /\ last_update.kind = "error"
    /\ last_update.progress = 50

====
